---- MODULE Spec2Model ----
(***************************************************************************)
(* State-machine model of src/src/timer.rs (stm32f1xx-hal): the register   *)
(* pair solver compute_arr_presc, the general-purpose CountDownTimer<TIMx> *)
(* generated by the hal! macro, and CountDownTimer<SYST>.                  *)
(*                                                                         *)
(* u32 values are kept at their width.  TLC integers are 32-bit signed, so *)
(* a u32 is the pair <<hi, lo>> of its 16-bit halves; u16 values and the   *)
(* 24-bit SysTick values are plain integers.                               *)
(***************************************************************************)
EXTENDS Integers, Sequences, FiniteSets, TLC

VARIABLES
    overflow_checks, \* build profile: TRUE = overflow checks on (debug), FALSE = wrapping (release)
    clk,             \* input clock in Hz (u32 pair): Timer.clk / CountDownTimer.clk, solver's `clock`
    sfreq,           \* solver specification: the `freq` argument
    sres,            \* solver specification: outcome of compute_arr_presc, or NotCalled
    kind,            \* which peripheral the handle is: "TIM" (hal! instance) or "SYST"
    holders,         \* live owners of the peripheral: subset of {"raw", "idle", "countdown"}
    tim,             \* general-purpose timer registers and internal counters
    syst,            \* SysTick registers
    lastOp,          \* the operation that produced this state
    lastRes,         \* its outcome: "ok", "wouldblock", "canceled", "panic", "none"
    elapsed,         \* input-clock ticks counted while enabled since the last (re)start
    pre,             \* registers as they were when CountDownTimer::stop was entered, or NoSnapshot
    wlog,            \* the timer register writes of the last operation, in program order
    remap            \* remap specification: the (configuration, channel, pin) request and its outcome

vars == <<overflow_checks, clk, sfreq, sres, kind, holders, tim, syst,
          lastOp, lastRes, elapsed, pre, wlog, remap>>

(***************************************************************************)
(* Bounds of the model.                                                    *)
(***************************************************************************)
MaxHi   == 3   \* solver clocks: high halves 0..MaxHi (and the top of the u32 range)
MaxLo   == 2   \* solver clocks: low halves 0..MaxLo (and 65535)
MaxFreq == 2   \* target frequencies 0..MaxFreq
MaxClk  == 2   \* small timer input clocks 1..MaxClk
MaxPsc  == 1   \* start_raw / restart_raw prescaler arguments 0..MaxPsc
MaxArr  == 1   \* start_raw / restart_raw reload arguments 0..MaxArr
MaxTicks == 5  \* hardware ticks followed after each (re)start

(***************************************************************************)
(* Fixed-width arithmetic.                                                 *)
(***************************************************************************)
W16 == 65536       \* 1 << 16
W8  == 2^8

U32(n) == <<n \div W16, n % W16>>          \* for 0 <= n < 2^31
IsZero(x) == x = <<0, 0>>

\* x - 1 on u32 with wrap-around (Rust wrapping_sub)
WrappingDec(x) ==
    IF x[2] > 0 THEN <<x[1], x[2] - 1>>
    ELSE IF x[1] > 0 THEN <<x[1] - 1, W16 - 1>>
    ELSE <<W16 - 1, W16 - 1>>

\* x / d on u32, for a divisor 1 <= d < 2^23: long division over the four bytes
DivU32(x, d) ==
    LET b3 == x[1] \div W8
        b2 == x[1] % W8
        b1 == x[2] \div W8
        b0 == x[2] % W8
        q3 == b3 \div d
        r3 == b3 % d
        c2 == r3 * W8 + b2
        q2 == c2 \div d
        r2 == c2 % d
        c1 == r2 * W8 + b1
        q1 == c1 \div d
        r1 == c1 % d
        c0 == r1 * W8 + b0
        q0 == c0 \div d
    IN <<q3 * W8 + q2, q1 * W8 + q0>>

(***************************************************************************)
(* Register pair solver: fn compute_arr_presc(freq: u32, clock: u32).      *)
(* freq is a small integer here (0..MaxFreq); clock is a u32 pair.  Every  *)
(* arithmetic step is the Rust one: `/` panics on a zero divisor, `+`/`-`  *)
(* panic on overflow when overflow checks are on and wrap when they are    *)
(* off, u16::try_from(..).unwrap() panics when the value exceeds 65535.    *)
(***************************************************************************)
Panic(why) == [st |-> "panic", why |-> why]
Solved(psc, arr) == [st |-> "ok", psc |-> psc, arr |-> arr]

\* a plausible slip: `ticks / (1 << 16)` instead of `(ticks - 1) / (1 << 16)`
compute_arr_presc_no_dec(freq, clock, oc) ==
    IF freq = 0 THEN Panic("div0")
    ELSE
    LET ticks == DivU32(clock, freq)
        psc   == ticks[1]
        div   == (psc + 1) % W16
        q     == DivU32(ticks, div)
    IN  IF psc + 1 > W16 - 1 /\ oc THEN Panic("add_overflow")
        ELSE IF div = 0 THEN Panic("div0")
        ELSE IF q[1] # 0 THEN Panic("try_from_arr")
        ELSE IF q[2] = 0 /\ oc THEN Panic("sub_overflow")
        ELSE Solved(psc, (q[2] - 1) % W16)

\* a plausible slip: `(psc as u32 + 1)` widening before the addition
compute_arr_presc_widened(freq, clock, oc) ==
    IF freq = 0 THEN Panic("div0")
    ELSE
    LET ticks == DivU32(clock, freq)
        psc   == WrappingDec(ticks)[1]
        q     == DivU32(ticks, psc + 1)
    IN  IF IsZero(ticks) /\ oc THEN Panic("sub_overflow")
        ELSE IF q[1] # 0 THEN Panic("try_from_arr")
        ELSE IF q[2] = 0 /\ oc THEN Panic("sub_overflow")
        ELSE Solved(psc, (q[2] - 1) % W16)

\* a plausible slip: the reload is not decremented (the period, not period - 1)
compute_arr_presc_no_arr_dec(freq, clock, oc) ==
    IF freq = 0 THEN Panic("div0")
    ELSE
    LET ticks == DivU32(clock, freq)
        psc   == WrappingDec(ticks)[1]
        div   == (psc + 1) % W16
        q     == DivU32(ticks, div)
    IN  IF IsZero(ticks) /\ oc THEN Panic("sub_overflow")
        ELSE IF psc + 1 > W16 - 1 /\ oc THEN Panic("add_overflow")
        ELSE IF div = 0 THEN Panic("div0")
        ELSE IF q[1] # 0 THEN Panic("try_from_arr")
        ELSE Solved(psc, q[2])

\* a plausible slip: the pair is returned in the order of the function's name, (arr, psc)
compute_arr_presc_swapped(freq, clock, oc) ==
    IF freq = 0 THEN Panic("div0")
    ELSE
    LET ticks == DivU32(clock, freq)
        psc   == WrappingDec(ticks)[1]
        div   == (psc + 1) % W16
        q     == DivU32(ticks, div)
    IN  IF IsZero(ticks) /\ oc THEN Panic("sub_overflow")
        ELSE IF psc + 1 > W16 - 1 /\ oc THEN Panic("add_overflow")
        ELSE IF div = 0 THEN Panic("div0")
        ELSE IF q[1] # 0 THEN Panic("try_from_arr")
        ELSE IF q[2] = 0 /\ oc THEN Panic("sub_overflow")
        ELSE Solved((q[2] - 1) % W16, psc)

compute_arr_presc(freq, clock, oc) ==
    IF freq = 0 THEN Panic("div0")                      \* clock / freq
    ELSE
    LET ticks == DivU32(clock, freq)
        dec   == WrappingDec(ticks)                     \* ticks - 1
        psc   == dec[1]                                 \* (ticks - 1) / (1 << 16): always <= 65535
        div   == (psc + 1) % W16                        \* psc + 1, computed in u16
        q     == DivU32(ticks, div)                     \* ticks / (psc + 1) as u32
    IN  IF IsZero(ticks) /\ oc THEN Panic("sub_overflow")
        ELSE IF psc + 1 > W16 - 1 /\ oc THEN Panic("add_overflow")
        ELSE IF div = 0 THEN Panic("div0")
        ELSE IF q[1] # 0 THEN Panic("try_from_arr")     \* u16::try_from(..).unwrap()
        ELSE IF q[2] = 0 /\ oc THEN Panic("sub_overflow")
        ELSE Solved(psc, (q[2] - 1) % W16)

NotCalled == [st |-> "none"]

(***************************************************************************)
(* Input sets.                                                             *)
(***************************************************************************)
Freqs == 0 .. MaxFreq
Clock72MHz == <<1098, 41472>>      \* 72,000,000 = 1098 * 2^16 + 41472
Clock8MHz  == <<122, 4608>>        \*  8,000,000 =  122 * 2^16 +  4608
SolverClocks == { <<h, l>> : h \in (0 .. MaxHi) \cup {W16 - 1},
                             l \in (0 .. MaxLo) \cup {W16 - 1} }
                \cup { Clock72MHz, Clock8MHz }
SolverFreqs == Freqs \cup { 1000 }
TimClocks  == { U32(c) : c \in 1 .. MaxClk } \cup { <<1, 0>>, <<1, 1>> }
SystClocks == { U32(c) : c \in 1 .. MaxClk } \cup { <<W8, 0>>, <<W8, 1>> }
MasterModes == { "Reset", "Update" }        \* two of the MMS_A variants

(***************************************************************************)
(* General-purpose timer TIMx: registers the driver touches, plus the      *)
(* prescaler's internal counter and its active (shadow) value.             *)
(***************************************************************************)
TimReset ==
    [ cen |-> FALSE, urs |-> FALSE, mms |-> "Reset", uie |-> FALSE, uif |-> FALSE,
      psc |-> 0, arr |-> W16 - 1, cnt |-> 0, pscCnt |-> 0, pscShadow |-> 0,
      dier_other |-> FALSE ]    \* dier_other: some DIER bit other than UIE is set

NoSnapshot == [ none |-> TRUE ]
NoRequest == [ none |-> TRUE ]

\* cr1.modify(|_, w| w.cen().clear_bit()) / set_bit()
cr1_cen_clear(t) == [t EXCEPT !.cen = FALSE]
cr1_cen_set(t)   == [t EXCEPT !.cen = TRUE]
\* psc.write(|w| w.psc().bits(psc)), arr.write(|w| w.arr().bits(arr))
psc_write(t, v) == [t EXCEPT !.psc = v]
arr_write(t, v) == [t EXCEPT !.arr = v]

\* egr.write(|w| w.ug().set_bit()): the forced update event.  It re-initialises the
\* counter and the prescaler counter and loads the prescaler; it raises the
\* update flag only when URS is clear.
egr_ug(t) ==
    [t EXCEPT !.cnt = 0, !.pscCnt = 0, !.pscShadow = t.psc,
              !.uif = IF t.urs THEN t.uif ELSE TRUE]

\* a plausible slip: the forced update without the URS guard around it
reset_without_urs(t) == egr_ug(t)

\* One register write: the register written and the registers after the write.
Step(reg, t) == [reg |-> reg, t |-> t]
Last(steps) == steps[Len(steps)]
\* What the write log keeps of a write: the register, and CEN, URS and MMS after it.
Wr(st) == [reg |-> st.reg, cen |-> st.t.cen, urs |-> st.t.urs, mms |-> st.t.mms]
Log(steps) == [i \in 1 .. Len(steps) |-> Wr(steps[i])]

\* CountDownTimer::reset, write by write
reset_steps(t) ==
    LET a == [t EXCEPT !.urs = TRUE]
        b == egr_ug(a)
        c == [b EXCEPT !.urs = FALSE]
    IN  << Step("cr1.urs", a), Step("egr.ug", b), Step("cr1.urs", c) >>

\* CountDownTimer::reset
reset(t) == Last(reset_steps(t)).t

\* a plausible slip: the counter is never re-enabled
restart_raw_no_resume(t, psc, arr) ==
    reset(arr_write(psc_write(cr1_cen_clear(t), psc), arr))

\* a plausible slip: the new values are programmed before the counter is paused
restart_raw_steps_late_pause(t, psc, arr) ==
    LET a == psc_write(t, psc)
        b == arr_write(a, arr)
        c == cr1_cen_clear(b)
        r == reset_steps(c)
        e == cr1_cen_set(Last(r).t)
    IN  << Step("psc", a), Step("arr", b), Step("cr1.cen", c) >> \o r
            \o << Step("cr1.cen", e) >>

\* CountDownTimer::restart_raw, write by write
restart_raw_steps(t, psc, arr) ==
    LET a == cr1_cen_clear(t)
        b == psc_write(a, psc)
        c == arr_write(b, arr)
        r == reset_steps(c)
        e == cr1_cen_set(Last(r).t)
    IN  << Step("cr1.cen", a), Step("psc", b), Step("arr", c) >> \o r
            \o << Step("cr1.cen", e) >>

\* CountDownTimer::restart_raw
restart_raw(t, psc, arr) == Last(restart_raw_steps(t, psc, arr)).t

\* CountDownTimer::listen / unlisten (Event::Update): dier.write starts from the
\* register's reset value, so every bit other than UIE is written as 0.
listen(t)   == [t EXCEPT !.uie = TRUE,  !.dier_other = FALSE]
unlisten(t) == [t EXCEPT !.uie = FALSE, !.dier_other = FALSE]

\* CountDownTimer::clear_update_interrupt_flag
clear_update_interrupt_flag(t) == [t EXCEPT !.uif = FALSE]

\* a plausible slip: stop also discards a pending update
stop_clearing_flag(t) == [t EXCEPT !.cen = FALSE, !.uif = FALSE]

\* a plausible slip: stop rewinds the counter as well
stop_rewinding(t) == [t EXCEPT !.cen = FALSE, !.cnt = 0, !.pscCnt = 0]

\* a plausible slip: stop only converts the handle and leaves the counter running
stop_without_disable(t) == t

\* CountDownTimer::stop, the register part
stop(t) == cr1_cen_clear(t)

\* a plausible slip: wait reports the flag without clearing it
wait_without_clear(t) == t

\* a plausible slip: a one-shot wait, which also stops the counter when it elapses
wait_one_shot(t) == IF ~t.uif THEN t ELSE [t EXCEPT !.uif = FALSE, !.cen = FALSE]

\* CountDown::wait, the register part (the result is "ok" iff the flag was set)
wait(t) == IF ~t.uif THEN t ELSE clear_update_interrupt_flag(t)

\* a plausible slip: cancel does not look at the enable bit's state and toggles it
cancel_toggle(t) == [t EXCEPT !.cen = ~t.cen]

\* Cancel::cancel, the register part (the result is "canceled" iff cen was clear)
cancel(t) == IF ~t.cen THEN t ELSE cr1_cen_clear(t)

\* One cycle of the timer's input clock while the counter is enabled.
tim_tick(t) ==
    IF t.pscCnt < t.pscShadow THEN [t EXCEPT !.pscCnt = t.pscCnt + 1]
    ELSE IF t.cnt = t.arr
         THEN [t EXCEPT !.pscCnt = 0, !.cnt = 0, !.uif = TRUE, !.pscShadow = t.psc]
         ELSE [t EXCEPT !.pscCnt = 0, !.cnt = (t.cnt + 1) % W16]

\* ownership: an operation taking `self` by value consumes the holder it is called on
borrowed(h, from, to) == h \cup {to}
moved(h, from, to) == (h \ {from}) \cup {to}

(***************************************************************************)
(* CountDown::start for CountDownTimer<TIMx>: the solver, then restart_raw.*)
(* A panic in the solver leaves the registers as they were.                *)
(***************************************************************************)
start(t, freq, clock, oc) ==
    LET c == compute_arr_presc(freq, clock, oc)
    IN  IF c.st = "ok"
        THEN [res |-> "ok", t |-> restart_raw(t, c.psc, c.arr),
              log |-> Log(restart_raw_steps(t, c.psc, c.arr))]
        ELSE [res |-> "panic", t |-> t, log |-> << >>]

\* a plausible slip: the trigger output is selected after the counter is armed
start_master_late(t, freq, mode, clock, oc) ==
    LET r == start(t, freq, clock, oc)
        a == [r.t EXCEPT !.mms = mode]
    IN  [res |-> r.res, t |-> a, log |-> r.log \o << Wr(Step("cr2.mms", a)) >>]

\* Timer<TIMx>::start_master: cr2.modify(mms), then CountDown::start
start_master(t, freq, mode, clock, oc) ==
    LET a == [t EXCEPT !.mms = mode]
        r == start(a, freq, clock, oc)
    IN  [res |-> r.res, t |-> r.t, log |-> << Wr(Step("cr2.mms", a)) >> \o r.log]

\* CountDownTimer<TIMx>::micros_since: whether it panics (the number it returns is
\* not part of the state).  freq_divider = clk / (psc + 1) in u32;
\* 1_000_000 * cnt / freq_divider in u64; u32::try_from(..).unwrap().
micros_since_panics(t, clock) ==
    LET fd == DivU32(clock, t.psc + 1)
    IN  \/ IsZero(fd)                 \* division by zero
        \* 1_000_000 * cnt / fd >= 2^32, both sides divided by 64
        \/ fd[1] = 0 /\ fd[2] < 16 /\ 15625 * t.cnt >= 67108864 * fd[2]

(***************************************************************************)
(* SysTick: CSR (ENABLE, TICKINT, CLKSOURCE, COUNTFLAG), RVR, CVR.         *)
(* Every read of CSR clears COUNTFLAG (cortex_m::SYST takes &mut self for  *)
(* has_wrapped and is_counter_enabled for that reason); the modify         *)
(* operations read CSR before they write it.                               *)
(***************************************************************************)
SystReset ==
    [ enable |-> FALSE, tickint |-> FALSE, clksource |-> "External",
      countflag |-> FALSE, rvr |-> 0, cvr |-> 0 ]

csr_read(s) == [s EXCEPT !.countflag = FALSE]
set_clock_source(s)  == [csr_read(s) EXCEPT !.clksource = "Core"]
enable_counter(s)    == [csr_read(s) EXCEPT !.enable = TRUE]
disable_counter(s)   == [csr_read(s) EXCEPT !.enable = FALSE]
enable_interrupt(s)  == [csr_read(s) EXCEPT !.tickint = TRUE]
disable_interrupt(s) == [csr_read(s) EXCEPT !.tickint = FALSE]
set_reload(s, v)     == [s EXCEPT !.rvr = v]
clear_current(s)     == [s EXCEPT !.cvr = 0, !.countflag = FALSE]

\* a plausible slip: the range assertion is missing and set_reload truncates to 24 bits
syst_start_unchecked(s, freq, clock, oc) ==
    IF freq = 0 THEN [res |-> "panic", s |-> s]
    ELSE
    LET q   == DivU32(clock, freq)
        rvr == WrappingDec(q)
    IN  IF IsZero(q) /\ oc THEN [res |-> "panic", s |-> s]
        ELSE [res |-> "ok",
              s |-> enable_counter(clear_current(
                        set_reload(s, (rvr[1] % W8) * W16 + rvr[2])))]

\* CountDown::start for CountDownTimer<SYST>
syst_start(s, freq, clock, oc) ==
    IF freq = 0 THEN [res |-> "panic", s |-> s]                \* self.clk / timeout
    ELSE
    LET q   == DivU32(clock, freq)
        rvr == WrappingDec(q)                                  \* ... - 1
    IN  IF IsZero(q) /\ oc THEN [res |-> "panic", s |-> s]
        ELSE IF ~(rvr[1] < W8) THEN [res |-> "panic", s |-> s]  \* assert!(rvr < (1 << 24))
        ELSE [res |-> "ok",
              s |-> enable_counter(clear_current(set_reload(s, rvr[1] * W16 + rvr[2])))]

\* CountDown::wait for CountDownTimer<SYST>: has_wrapped() reads CSR
syst_wait(s) == csr_read(s)

\* Cancel::cancel for CountDownTimer<SYST>: is_counter_enabled() reads CSR
syst_cancel(s) ==
    LET r == csr_read(s)
    IN  IF ~s.enable THEN r ELSE disable_counter(r)

\* CountDownTimer<SYST>::micros_since: whether it panics.
\* reload_value - current in u32; 1_000_000 * ticks / timer_clock in u64.
\* (cvr <= rvr in every reachable state, start clears CVR after programming
\* RVR, so only the checked subtraction is modelled.)
syst_micros_since_panics(s, clock, oc) ==
    \/ s.cvr > s.rvr /\ oc
    \/ IsZero(clock)

\* One cycle of the core clock while SysTick is enabled: reload at zero, else count
\* down; COUNTFLAG is set by the transition from 1 to 0.
syst_tick(s) ==
    IF s.cvr = 0 THEN [s EXCEPT !.cvr = s.rvr]
    ELSE [s EXCEPT !.cvr = s.cvr - 1, !.countflag = s.countflag \/ (s.cvr = 1)]

(***************************************************************************)
(* The state machine.  A panic ends the program: no operation follows it.  *)
(***************************************************************************)
Alive == lastRes # "panic"
Fixed == UNCHANGED <<overflow_checks, clk, sfreq, sres, kind, remap>>
Done(op, res) == lastOp' = op /\ lastRes' = res
IsTim  == kind = "TIM" /\ Alive
IsSyst == kind = "SYST" /\ Alive

Init ==
    /\ overflow_checks \in BOOLEAN
    /\ kind \in {"TIM", "SYST"}
    /\ clk \in (IF kind = "TIM" THEN TimClocks ELSE SystClocks)
    /\ sfreq = 0 /\ sres = NotCalled
    /\ holders = {"raw"}
    /\ tim = TimReset /\ syst = SystReset
    /\ lastOp = "init" /\ lastRes = "none"
    /\ elapsed = 0
    /\ pre = NoSnapshot
    /\ wlog = << >>
    /\ remap = NoRequest

\* Timer::new / Timer::$timX: TIM::enable(rcc); TIM::reset(rcc)
New ==
    /\ IsTim /\ "raw" \in holders
    /\ holders' = moved(holders, "raw", "idle")
    /\ tim' = TimReset /\ elapsed' = 0 /\ pre' = NoSnapshot
    /\ wlog' = << >> /\ Done("new", "ok") /\ UNCHANGED syst /\ Fixed

\* Timer::clocking_reset
ClockingReset ==
    /\ IsTim /\ "idle" \in holders
    /\ tim' = TimReset /\ elapsed' = 0 /\ pre' = NoSnapshot
    /\ wlog' = << >> /\ Done("clocking_reset", "ok") /\ UNCHANGED <<holders, syst>> /\ Fixed

\* Timer::release
Release ==
    /\ IsTim /\ "idle" \in holders
    /\ holders' = moved(holders, "idle", "raw")
    /\ pre' = NoSnapshot
    /\ wlog' = << >> /\ Done("release", "ok") /\ UNCHANGED <<tim, syst, elapsed>> /\ Fixed

\* Timer<TIMx>::start_count_down
StartCountDown(f) ==
    /\ IsTim /\ "idle" \in holders
    /\ holders' = moved(holders, "idle", "countdown")
    /\ LET r == start(tim, f, clk, overflow_checks)
       IN  /\ tim' = r.t
           /\ elapsed' = IF r.res = "ok" THEN 0 ELSE elapsed
           /\ wlog' = r.log /\ Done("start_count_down", r.res)
    /\ pre' = NoSnapshot /\ UNCHANGED syst /\ Fixed

\* Timer<TIMx>::start_master
StartMaster(f, mode) ==
    /\ IsTim /\ "idle" \in holders
    /\ holders' = moved(holders, "idle", "countdown")
    /\ LET r == start_master(tim, f, mode, clk, overflow_checks)
       IN  /\ tim' = r.t
           /\ elapsed' = IF r.res = "ok" THEN 0 ELSE elapsed
           /\ wlog' = r.log /\ Done("start_master", r.res)
    /\ pre' = NoSnapshot /\ UNCHANGED syst /\ Fixed

\* Timer<TIMx>::start_raw
StartRaw(psc, arr) ==
    /\ IsTim /\ "idle" \in holders
    /\ holders' = moved(holders, "idle", "countdown")
    /\ tim' = restart_raw(tim, psc, arr)
    /\ elapsed' = 0
    /\ wlog' = Log(restart_raw_steps(tim, psc, arr)) /\ Done("start_raw", "ok")
    /\ UNCHANGED <<pre, syst>> /\ Fixed

\* CountDownTimer<TIMx>::listen(Event::Update)
Listen ==
    /\ IsTim /\ "countdown" \in holders
    /\ tim' = listen(tim)
    /\ pre' = NoSnapshot
    /\ wlog' = << Wr(Step("dier", tim')) >> /\ Done("listen", "ok") /\ UNCHANGED <<holders, syst, elapsed>> /\ Fixed

\* CountDownTimer<TIMx>::unlisten(Event::Update)
Unlisten ==
    /\ IsTim /\ "countdown" \in holders
    /\ tim' = unlisten(tim)
    /\ pre' = NoSnapshot
    /\ wlog' = << Wr(Step("dier", tim')) >> /\ Done("unlisten", "ok") /\ UNCHANGED <<holders, syst, elapsed>> /\ Fixed

\* CountDownTimer<TIMx>::restart_raw
RestartRaw(psc, arr) ==
    /\ IsTim /\ "countdown" \in holders
    /\ tim' = restart_raw(tim, psc, arr)
    /\ elapsed' = 0 /\ pre' = NoSnapshot
    /\ wlog' = Log(restart_raw_steps(tim, psc, arr)) /\ Done("restart_raw", "ok") /\ UNCHANGED <<holders, syst>> /\ Fixed

\* CountDownTimer<TIMx>::psc / arr / cnt: register reads
ReadPsc ==
    /\ IsTim /\ "countdown" \in holders
    /\ pre' = NoSnapshot
    /\ wlog' = << >> /\ Done("psc", "ok") /\ UNCHANGED <<holders, tim, syst, elapsed>> /\ Fixed

ReadArr ==
    /\ IsTim /\ "countdown" \in holders
    /\ pre' = NoSnapshot
    /\ wlog' = << >> /\ Done("arr", "ok") /\ UNCHANGED <<holders, tim, syst, elapsed>> /\ Fixed

ReadCnt ==
    /\ IsTim /\ "countdown" \in holders
    /\ pre' = NoSnapshot
    /\ wlog' = << >> /\ Done("cnt", "ok") /\ UNCHANGED <<holders, tim, syst, elapsed>> /\ Fixed

\* CountDownTimer<TIMx>::stop
Stop ==
    /\ IsTim /\ "countdown" \in holders
    /\ holders' = moved(holders, "countdown", "idle")
    /\ tim' = stop(tim)
    /\ pre' = tim
    /\ wlog' = << Wr(Step("cr1.cen", tim')) >>
    /\ Done("stop", "ok") /\ UNCHANGED <<syst, elapsed>> /\ Fixed

\* CountDownTimer<TIMx>::clear_update_interrupt_flag
ClearUpdateInterruptFlag ==
    /\ IsTim /\ "countdown" \in holders
    /\ tim' = clear_update_interrupt_flag(tim)
    /\ pre' = NoSnapshot
    /\ wlog' = << Wr(Step("sr.uif", tim')) >>
    /\ Done("clear_update_interrupt_flag", "ok")
    /\ UNCHANGED <<holders, syst, elapsed>> /\ Fixed

\* CountDownTimer<TIMx>::release: self.stop().release()
ReleaseCountDown ==
    /\ IsTim /\ "countdown" \in holders
    /\ holders' = moved(moved(holders, "countdown", "idle"), "idle", "raw")
    /\ tim' = stop(tim)
    /\ pre' = NoSnapshot
    /\ wlog' = << Wr(Step("cr1.cen", tim')) >>
    /\ Done("countdown_release", "ok") /\ UNCHANGED <<syst, elapsed>> /\ Fixed

\* CountDownTimer<TIMx>::micros_since
MicrosSince ==
    /\ IsTim /\ "countdown" \in holders
    /\ pre' = NoSnapshot
    /\ wlog' = << >> /\ Done("micros_since", IF micros_since_panics(tim, clk) THEN "panic" ELSE "ok")
    /\ UNCHANGED <<holders, tim, syst, elapsed>> /\ Fixed

\* CountDownTimer<TIMx>::reset
Reset ==
    /\ IsTim /\ "countdown" \in holders
    /\ tim' = reset(tim)
    /\ pre' = NoSnapshot
    /\ wlog' = Log(reset_steps(tim))
    /\ Done("reset", "ok") /\ UNCHANGED <<holders, syst, elapsed>> /\ Fixed

\* CountDown::start for CountDownTimer<TIMx>
Start(f) ==
    /\ IsTim /\ "countdown" \in holders
    /\ LET r == start(tim, f, clk, overflow_checks)
       IN  /\ tim' = r.t
           /\ elapsed' = IF r.res = "ok" THEN 0 ELSE elapsed
           /\ wlog' = r.log /\ Done("start", r.res)
    /\ pre' = NoSnapshot /\ UNCHANGED <<holders, syst>> /\ Fixed

\* CountDown::wait for CountDownTimer<TIMx>
Wait ==
    /\ IsTim /\ "countdown" \in holders
    /\ tim' = wait(tim)
    /\ pre' = NoSnapshot
    /\ wlog' = IF tim.uif THEN << Wr(Step("sr.uif", tim')) >> ELSE << >>
    /\ Done("wait", IF tim.uif THEN "ok" ELSE "wouldblock")
    /\ UNCHANGED <<holders, syst, elapsed>> /\ Fixed

\* Cancel::cancel for CountDownTimer<TIMx>
Cancel ==
    /\ IsTim /\ "countdown" \in holders
    /\ tim' = cancel(tim)
    /\ pre' = NoSnapshot
    /\ wlog' = IF tim.cen THEN << Wr(Step("cr1.cen", tim')) >> ELSE << >>
    /\ Done("cancel", IF tim.cen THEN "ok" ELSE "canceled")
    /\ UNCHANGED <<holders, syst, elapsed>> /\ Fixed

\* the hardware: one input-clock cycle of an enabled general-purpose timer
Tick ==
    /\ IsTim /\ tim.cen /\ elapsed < MaxTicks
    /\ tim' = tim_tick(tim)
    /\ elapsed' = elapsed + 1
    /\ pre' = NoSnapshot
    /\ wlog' = << >> /\ Done("tick", "none") /\ UNCHANGED <<holders, syst>> /\ Fixed

\* Timer::syst
Syst ==
    /\ IsSyst /\ "raw" \in holders
    /\ holders' = moved(holders, "raw", "idle")
    /\ syst' = set_clock_source(syst)
    /\ wlog' = << >> /\ Done("syst", "ok") /\ UNCHANGED <<tim, elapsed, pre>> /\ Fixed

\* Timer<SYST>::release
SystRelease ==
    /\ IsSyst /\ "idle" \in holders
    /\ holders' = moved(holders, "idle", "raw")
    /\ wlog' = << >> /\ Done("release", "ok") /\ UNCHANGED <<tim, syst, elapsed, pre>> /\ Fixed

\* Timer<SYST>::start_count_down
SystStartCountDown(f) ==
    /\ IsSyst /\ "idle" \in holders
    /\ holders' = moved(holders, "idle", "countdown")
    /\ LET r == syst_start(syst, f, clk, overflow_checks)
       IN  /\ syst' = r.s
           /\ elapsed' = IF r.res = "ok" THEN 0 ELSE elapsed
           /\ wlog' = << >> /\ Done("start_count_down", r.res)
    /\ UNCHANGED <<tim, pre>> /\ Fixed

\* CountDownTimer<SYST>::listen(Event::Update)
SystListen ==
    /\ IsSyst /\ "countdown" \in holders
    /\ syst' = enable_interrupt(syst)
    /\ wlog' = << >> /\ Done("listen", "ok") /\ UNCHANGED <<holders, tim, elapsed, pre>> /\ Fixed

\* CountDownTimer<SYST>::unlisten(Event::Update)
SystUnlisten ==
    /\ IsSyst /\ "countdown" \in holders
    /\ syst' = disable_interrupt(syst)
    /\ wlog' = << >> /\ Done("unlisten", "ok") /\ UNCHANGED <<holders, tim, elapsed, pre>> /\ Fixed

\* CountDownTimer<SYST>::reset
SystResetCounter ==
    /\ IsSyst /\ "countdown" \in holders
    /\ syst' = clear_current(syst)
    /\ wlog' = << >> /\ Done("reset", "ok") /\ UNCHANGED <<holders, tim, elapsed, pre>> /\ Fixed

\* CountDownTimer<SYST>::micros_since
SystMicrosSince ==
    /\ IsSyst /\ "countdown" \in holders
    /\ wlog' = << >> /\ Done("micros_since",
            IF syst_micros_since_panics(syst, clk, overflow_checks) THEN "panic" ELSE "ok")
    /\ UNCHANGED <<holders, tim, syst, elapsed, pre>> /\ Fixed

\* CountDownTimer<SYST>::stop
SystStop ==
    /\ IsSyst /\ "countdown" \in holders
    /\ holders' = moved(holders, "countdown", "idle")
    /\ syst' = disable_counter(syst)
    /\ wlog' = << >> /\ Done("stop", "ok") /\ UNCHANGED <<tim, elapsed, pre>> /\ Fixed

\* CountDownTimer<SYST>::release: self.stop().release()
SystReleaseCountDown ==
    /\ IsSyst /\ "countdown" \in holders
    /\ holders' = moved(moved(holders, "countdown", "idle"), "idle", "raw")
    /\ syst' = disable_counter(syst)
    /\ wlog' = << >> /\ Done("countdown_release", "ok") /\ UNCHANGED <<tim, elapsed, pre>> /\ Fixed

\* CountDown::start for CountDownTimer<SYST>
SystStart(f) ==
    /\ IsSyst /\ "countdown" \in holders
    /\ LET r == syst_start(syst, f, clk, overflow_checks)
       IN  /\ syst' = r.s
           /\ elapsed' = IF r.res = "ok" THEN 0 ELSE elapsed
           /\ wlog' = << >> /\ Done("start", r.res)
    /\ UNCHANGED <<holders, tim, pre>> /\ Fixed

\* CountDown::wait for CountDownTimer<SYST>
SystWait ==
    /\ IsSyst /\ "countdown" \in holders
    /\ syst' = syst_wait(syst)
    /\ wlog' = << >> /\ Done("wait", IF syst.countflag THEN "ok" ELSE "wouldblock")
    /\ UNCHANGED <<holders, tim, elapsed, pre>> /\ Fixed

\* Cancel::cancel for CountDownTimer<SYST>
SystCancel ==
    /\ IsSyst /\ "countdown" \in holders
    /\ syst' = syst_cancel(syst)
    /\ wlog' = << >> /\ Done("cancel", IF syst.enable THEN "ok" ELSE "canceled")
    /\ UNCHANGED <<holders, tim, elapsed, pre>> /\ Fixed

\* the hardware: one core-clock cycle of an enabled SysTick
SystTick ==
    /\ IsSyst /\ syst.enable /\ elapsed < MaxTicks
    /\ syst' = syst_tick(syst)
    /\ elapsed' = elapsed + 1
    /\ wlog' = << >> /\ Done("tick", "none") /\ UNCHANGED <<holders, tim, pre>> /\ Fixed

Next ==
    \/ New \/ ClockingReset \/ Release
    \/ \E f \in Freqs : StartCountDown(f)
    \/ \E f \in Freqs, m \in MasterModes : StartMaster(f, m)
    \/ \E p \in 0 .. MaxPsc, r \in 0 .. MaxArr : StartRaw(p, r)
    \/ Listen \/ Unlisten
    \/ \E p \in 0 .. MaxPsc, r \in 0 .. MaxArr : RestartRaw(p, r)
    \/ ReadPsc \/ ReadArr \/ ReadCnt
    \/ Stop \/ ClearUpdateInterruptFlag \/ ReleaseCountDown \/ MicrosSince \/ Reset
    \/ \E f \in Freqs : Start(f)
    \/ Wait \/ Cancel \/ Tick
    \/ Syst \/ SystRelease
    \/ \E f \in Freqs : SystStartCountDown(f)
    \/ SystListen \/ SystUnlisten \/ SystResetCounter \/ SystMicrosSince
    \/ SystStop \/ SystReleaseCountDown
    \/ \E f \in Freqs : SystStart(f)
    \/ SystWait \/ SystCancel \/ SystTick

Spec == Init /\ [][Next]_vars

(***************************************************************************)
(* The solver on its own: Init draws (freq, clock) and the build profile,  *)
(* Solve applies compute_arr_presc once.                                   *)
(***************************************************************************)
SolverInit ==
    /\ overflow_checks \in BOOLEAN
    /\ clk \in SolverClocks
    /\ sfreq \in SolverFreqs
    /\ sres = NotCalled
    /\ kind = "NONE" /\ holders = {}
    /\ tim = TimReset /\ syst = SystReset
    /\ lastOp = "init" /\ lastRes = "none"
    /\ elapsed = 0
    /\ pre = NoSnapshot
    /\ wlog = << >>
    /\ remap = NoRequest

Solve ==
    /\ sres = NotCalled
    /\ sres' = compute_arr_presc(sfreq, clk, overflow_checks)
    /\ UNCHANGED <<overflow_checks, clk, sfreq, kind, holders, tim, syst,
                   lastOp, lastRes, elapsed, pre, wlog, remap>>

SolverNext == Solve

SolverSpec == SolverInit /\ [][SolverNext]_vars

(***************************************************************************)
(* A general-purpose timer whose hardware never stops ticking and whose    *)
(* caller keeps polling wait: the input clock is free-running, so a tick   *)
(* of an enabled counter is weakly fair, and so is the caller's wait (a    *)
(* `block!(timer.wait())` loop).  Ticks are not counted here.              *)
(***************************************************************************)
LiveInit ==
    /\ overflow_checks \in BOOLEAN
    /\ kind = "TIM"
    /\ clk \in { U32(c) : c \in 1 .. MaxClk }
    /\ sfreq = 0 /\ sres = NotCalled
    /\ holders = {"raw"}
    /\ tim = TimReset /\ syst = SystReset
    /\ lastOp = "init" /\ lastRes = "none"
    /\ elapsed = 0
    /\ pre = NoSnapshot
    /\ wlog = << >>
    /\ remap = NoRequest

LiveTick ==
    /\ IsTim /\ tim.cen
    /\ tim' = tim_tick(tim)
    /\ pre' = NoSnapshot
    /\ wlog' = << >> /\ Done("tick", "none") /\ UNCHANGED <<holders, syst, elapsed>> /\ Fixed

LiveNext ==
    \/ New
    \/ \E f \in Freqs : StartCountDown(f)
    \/ \E p \in 0 .. MaxPsc, r \in 0 .. MaxArr : StartRaw(p, r)
    \/ \E p \in 0 .. MaxPsc, r \in 0 .. MaxArr : RestartRaw(p, r)
    \/ Reset \/ Cancel \/ Stop \/ ClearUpdateInterruptFlag
    \/ Wait \/ LiveTick

LiveSpec == LiveInit /\ [][LiveNext]_vars /\ WF_vars(LiveTick) /\ WF_vars(Wait)

(***************************************************************************)
(* The remap capability relation: the remap! invocations, the ChN<REMAP>   *)
(* impls they generate, and the table of the module documentation.         *)
(***************************************************************************)
Row(name, periph, state, cfg, p1, p2, p3, p4) ==
    [ name |-> name, periph |-> periph, state |-> state, cfg |-> cfg,
      pins |-> << p1, p2, p3, p4 >> ]

\* #[cfg(any(feature = "stm32f100", feature = "stm32f103", feature = "connectivity"))]
Tim1Remaps ==
    { Row("Tim1NoRemap",   "TIM1", 0, "tim1", "PA8", "PA9",  "PA10", "PA11"),
      Row("Tim1FullRemap", "TIM1", 3, "tim1", "PE9", "PE11", "PE13", "PE14") }

Tim23Remaps ==
    { Row("Tim2NoRemap",       "TIM2", 0, "always", "PA0",  "PA1", "PA2",  "PA3"),
      Row("Tim2PartialRemap1", "TIM2", 1, "always", "PA15", "PB3", "PA2",  "PA3"),
      Row("Tim2PartialRemap2", "TIM2", 2, "always", "PA0",  "PA1", "PB10", "PB11"),
      Row("Tim2FullRemap",     "TIM2", 3, "always", "PA15", "PB3", "PB10", "PB11"),
      Row("Tim3NoRemap",       "TIM3", 0, "always", "PA6",  "PA7", "PB0",  "PB1"),
      Row("Tim3PartialRemap",  "TIM3", 2, "always", "PB4",  "PB5", "PB0",  "PB1"),
      Row("Tim3FullRemap",     "TIM3", 3, "always", "PC6",  "PC7", "PC8",  "PC9") }

\* a plausible slip: two pins of a row exchanged
Tim4RemapsExchanged ==
    { Row("Tim4NoRemap", "TIM4", 0, "medium", "PB6",  "PB7",  "PB8",  "PB9"),
      Row("Tim4Remap",   "TIM4", 1, "medium", "PD12", "PD13", "PD15", "PD14") }

\* #[cfg(feature = "medium")]
Tim4Remaps ==
    { Row("Tim4NoRemap", "TIM4", 0, "medium", "PB6",  "PB7",  "PB8",  "PB9"),
      Row("Tim4Remap",   "TIM4", 1, "medium", "PD12", "PD13", "PD14", "PD15") }

RemapTable == Tim1Remaps \cup Tim23Remaps \cup Tim4Remaps

\* the module documentation: one section per peripheral, one column per configuration
DocTable ==
    [ Tim1NoRemap       |-> [periph |-> "TIM1", pins |-> << "PA8",  "PA9",  "PA10", "PA11" >>],
      Tim1FullRemap     |-> [periph |-> "TIM1", pins |-> << "PE9",  "PE11", "PE13", "PE14" >>],
      Tim2NoRemap       |-> [periph |-> "TIM2", pins |-> << "PA0",  "PA1",  "PA2",  "PA3"  >>],
      Tim2PartialRemap1 |-> [periph |-> "TIM2", pins |-> << "PA15", "PB3",  "PA2",  "PA3"  >>],
      Tim2PartialRemap2 |-> [periph |-> "TIM2", pins |-> << "PA0",  "PA1",  "PB10", "PB11" >>],
      Tim2FullRemap     |-> [periph |-> "TIM2", pins |-> << "PA15", "PB3",  "PB10", "PB11" >>],
      Tim3NoRemap       |-> [periph |-> "TIM3", pins |-> << "PA6",  "PA7",  "PB0",  "PB1"  >>],
      Tim3PartialRemap  |-> [periph |-> "TIM3", pins |-> << "PB4",  "PB5",  "PB0",  "PB1"  >>],
      Tim3FullRemap     |-> [periph |-> "TIM3", pins |-> << "PC6",  "PC7",  "PC8",  "PC9"  >>],
      Tim4NoRemap       |-> [periph |-> "TIM4", pins |-> << "PB6",  "PB7",  "PB8",  "PB9"  >>],
      Tim4Remap         |-> [periph |-> "TIM4", pins |-> << "PD12", "PD13", "PD14", "PD15" >>] ]

Channels == 1 .. 4
\* pin types of crate::gpio offered to a channel: every pin of the tables and some others
Pins ==
    UNION { { r.pins[c] : c \in Channels } : r \in RemapTable }
        \cup UNION { { DocTable[n].pins[c] : c \in Channels } : n \in DOMAIN DocTable }
        \cup { "PA4", "PA12", "PB2", "PC13", "PD2", "PE10" }

\* build features: whether the cfg of the TIM1 / TIM4 invocation holds
Features == [ tim1 : BOOLEAN, medium : BOOLEAN, always : {TRUE} ]
\* the remap configuration types the build defines
Defined(features) == { r \in RemapTable : features[r.cfg] }
\* the peripheral(s) a configuration type is bound to: <name as Remap>::Periph
Periph(name) == { r.periph : r \in { q \in RemapTable : q.name = name } }
\* whether `pin: ChN<name>` holds: impl<MODE> sealed::ChN<$name> for crate::gpio::$PN<MODE>
Accepts(name, ch, pin) == \E r \in RemapTable : r.name = name /\ r.pins[ch] = pin

RemapInit ==
    /\ \E f \in Features :
         \E r \in Defined(f), ch \in Channels, pin \in Pins :
            remap = [ features |-> f, name |-> r.name, ch |-> ch, pin |-> pin,
                      res |-> "none" ]
    /\ overflow_checks = FALSE
    /\ clk = U32(1)
    /\ sfreq = 0 /\ sres = NotCalled
    /\ kind = "NONE" /\ holders = {}
    /\ tim = TimReset /\ syst = SystReset
    /\ lastOp = "init" /\ lastRes = "none"
    /\ elapsed = 0
    /\ pre = NoSnapshot
    /\ wlog = << >>

\* the compiler evaluates the bound `pin: ChN<name>` of the request
CheckBound ==
    /\ remap.res = "none"
    /\ remap' = [remap EXCEPT
                   !.res = IF Accepts(remap.name, remap.ch, remap.pin)
                           THEN "accepted" ELSE "rejected"]
    /\ UNCHANGED <<overflow_checks, clk, sfreq, sres, kind, holders, tim, syst,
                   lastOp, lastRes, elapsed, pre, wlog>>

RemapNext == CheckBound

RemapSpec == RemapInit /\ [][RemapNext]_vars

(***************************************************************************)
(* listen / unlisten on their own.  The DIER bits other than UIE (DMA      *)
(* request enables, capture/compare and trigger interrupt enables) are     *)
(* never written by this file except through listen / unlisten, but the    *)
(* register block is reachable by the rest of the firmware through the     *)
(* device crate (TIMx::ptr()), so Init draws the registers of a live       *)
(* CountDownTimer with those bits either clear or set.                     *)
(***************************************************************************)
ListenRegisters ==
    { t \in [ cen : BOOLEAN, urs : {FALSE}, mms : MasterModes, uie : BOOLEAN,
              uif : BOOLEAN, psc : 0 .. MaxPsc, arr : 0 .. MaxArr, cnt : 0 .. MaxArr,
              pscCnt : 0 .. MaxPsc, pscShadow : 0 .. MaxPsc, dier_other : BOOLEAN ] :
        t.cnt <= t.arr /\ t.pscCnt <= t.pscShadow }

ListenInit ==
    /\ overflow_checks \in BOOLEAN
    /\ kind = "TIM"
    /\ clk \in TimClocks
    /\ sfreq = 0 /\ sres = NotCalled
    /\ holders = {"countdown"}
    /\ tim \in ListenRegisters /\ syst = SystReset
    /\ lastOp = "init" /\ lastRes = "none"
    /\ elapsed = 0
    /\ pre = NoSnapshot
    /\ wlog = << >>
    /\ remap = NoRequest

ListenNext == Listen \/ Unlisten

ListenSpec == ListenInit /\ [][ListenNext]_vars

(***************************************************************************)
(* Claims.                                                                 *)
(***************************************************************************)
ToInt(x) == x[1] * W16 + x[2]                     \* for x < 2^31
CeilDiv16(x) == x[1] + (IF x[2] > 0 THEN 1 ELSE 0) \* ceil(x / 2^16)
LeqShift16(x, d) == x[1] < d \/ (x[1] = d /\ x[2] = 0)   \* x <= d * 2^16
StartOps == {"start", "start_count_down", "start_master", "start_raw", "restart_raw"}

\* C1: for every (clock, freq) whose tick count clock div freq is in 1..2^32-1,
\* compute_arr_presc returns (does not panic) a pair with psc and arr in 0..65535
\* and arr + 1 = ticks div (psc + 1) (hence (psc+1)*(arr+1) <= ticks and the
\* difference, ticks mod (psc+1), is at most psc).
C1_SolverTotalOnValidTicks ==
    (sres # NotCalled /\ sfreq > 0 /\ ~IsZero(DivU32(clk, sfreq))) =>
        /\ sres.st = "ok"
        /\ sres.psc \in 0 .. W16 - 1
        /\ sres.arr \in 0 .. W16 - 1
        /\ U32(sres.arr + 1) = DivU32(DivU32(clk, sfreq), sres.psc + 1)

\* C2 (as amended): whenever compute_arr_presc returns, the prescaler equals
\* ceil(ticks / 2^16) - 1 and it is the smallest p in 0..65535 with
\* ticks <= (p + 1) * 2^16.
C2_PrescalerIsCeilMinusOne ==
    sres.st = "ok" =>
        LET ticks == DivU32(clk, sfreq)
        IN  /\ sres.psc = CeilDiv16(ticks) - 1
            /\ sres.psc \in 0 .. W16 - 1
            /\ LeqShift16(ticks, sres.psc + 1)
            /\ \A p \in 0 .. sres.psc - 1 : ~LeqShift16(ticks, p + 1)

C2_Witness == sres.st = "ok" /\ sres.psc > 0 /\ sres.arr < W16 - 1

\* C2 (as claimed): the prescaler returned equals ceil(ticks / 2^16) - 1 and no
\* smaller p yields a reload ticks div (p + 1) - 1 that fits 16 bits.
C2_NoSmallerPrescalerFits ==
    sres.st = "ok" =>
        LET ticks == DivU32(clk, sfreq)
            fits(p) == LET q == DivU32(ticks, p + 1)
                       IN  ~IsZero(q) /\ LeqShift16(q, 1)   \* 0 <= q - 1 <= 65535
        IN  /\ sres.psc = CeilDiv16(ticks) - 1
            /\ fits(sres.psc)
            /\ \A p \in 0 .. sres.psc - 1 : ~fits(p)

\* C3: after any start of a general-purpose CountDownTimer, whatever the update
\* flag held at the call, no wait returns elapsed before the counter has
\* completed one full period of (psc+1)*(arr+1) ticks since that start.
C3_NoElapsedBeforeFullPeriod ==
    (kind = "TIM" /\ lastOp = "wait" /\ lastRes = "ok") =>
        elapsed >= (tim.psc + 1) * (tim.arr + 1)

\* C4: wait turns the level flag into an edge.  With the flag set it returns
\* elapsed and leaves the flag clear; with the flag clear it returns not-elapsed
\* and changes no register; a wait right after a wait returns not-elapsed; and the
\* flag is raised only by a hardware tick, so one update event feeds one wait.
C4_WaitIsEdge ==
    [][ /\ Wait => IF tim.uif THEN lastRes' = "ok" /\ ~tim'.uif
                   ELSE lastRes' = "wouldblock" /\ tim' = tim
        /\ SystWait => IF syst.countflag THEN lastRes' = "ok" /\ ~syst'.countflag
                       ELSE lastRes' = "wouldblock" /\ syst' = syst
        /\ (lastOp = "wait" /\ (Wait \/ SystWait)) => lastRes' = "wouldblock"
        /\ (~tim.uif /\ tim'.uif) => lastOp' = "tick"
        /\ (~syst.countflag /\ syst'.countflag) => lastOp' = "tick" ]_vars

C4_Witness == kind = "TIM" /\ lastOp = "wait" /\ lastRes = "ok" /\ tim.cen

\* C5: cancel with the run-enable bit set clears it and returns Ok; cancel with
\* the bit clear returns Canceled and changes no register; so a cancel right after
\* a cancel returns Canceled, a cancel right after a start returns Ok, and only a
\* start sets the bit again.
C5_CancelNotIdempotent ==
    [][ /\ Cancel => IF tim.cen THEN lastRes' = "ok" /\ ~tim'.cen
                     ELSE lastRes' = "canceled" /\ tim' = tim
        /\ SystCancel => IF syst.enable THEN lastRes' = "ok" /\ ~syst'.enable
                         ELSE lastRes' = "canceled" /\ syst' = syst
        /\ (lastOp = "cancel" /\ (Cancel \/ SystCancel)) => lastRes' = "canceled"
        /\ (lastOp \in StartOps /\ (Cancel \/ SystCancel)) => lastRes' = "ok"
        /\ ((~tim.cen /\ tim'.cen) \/ (~syst.enable /\ syst'.enable))
               => lastOp' \in StartOps ]_vars

C5_Witness == kind = "TIM" /\ lastOp = "cancel" /\ lastRes = "canceled" /\ tim.uif

\* C6: starting a general-purpose timer with target frequency 0, or with one
\* that yields zero ticks, panics in either build profile, and the prescaler,
\* reload and run-enable registers keep their values.
C6_ZeroTicksFailsLoudly ==
    [][ \A f \in Freqs :
          ( /\ f = 0 \/ IsZero(DivU32(clk, f))
            /\ Start(f) \/ StartCountDown(f) \/ \E m \in MasterModes : StartMaster(f, m) )
          => /\ lastRes' = "panic"
             /\ tim'.psc = tim.psc /\ tim'.arr = tim.arr /\ tim'.cen = tim.cen ]_vars

C6_Witness ==
    /\ kind = "TIM" /\ lastOp = "start" /\ lastRes = "panic"
    /\ ~overflow_checks /\ clk = U32(1) /\ tim.cen

\* C7: a system tick start either programs reload = clk div freq - 1 < 2^24 and
\* enables the counter, or (quotient 0, or reload >= 2^24) panics with every
\* SysTick register as it was.
C7_SystReloadNeverTruncated ==
    [][ \A f \in Freqs :
          (SystStart(f) \/ SystStartCountDown(f)) =>
            IF /\ f > 0
               /\ ~IsZero(DivU32(clk, f))
               /\ LeqShift16(DivU32(clk, f), W8)          \* clk div f - 1 < 2^24
            THEN /\ lastRes' = "ok"
                 /\ syst'.rvr = ToInt(DivU32(clk, f)) - 1
                 /\ syst'.rvr < 2^24
                 /\ syst'.enable
            ELSE lastRes' = "panic" /\ syst' = syst ]_vars

C7_Witness ==
    /\ kind = "SYST" /\ lastOp = "start" /\ lastRes = "ok"
    /\ syst.rvr = 2^24 - 1 /\ syst.enable

\* C8: the run-enable bit of a general-purpose timer is set when any start
\* operation returns; only cancel, stop and release clear it; wait, reset,
\* listen, unlisten, clear_update_interrupt_flag, psc, arr, cnt and micros_since
\* leave it as it was.
C8_RunEnableFrame ==
    [][ kind = "TIM" =>
        /\ (lastOp' \in StartOps /\ lastRes' = "ok") => tim'.cen
        /\ (tim.cen /\ ~tim'.cen) => lastOp' \in {"cancel", "stop", "countdown_release"}
        /\ lastOp' \in {"wait", "reset", "listen", "unlisten",
                        "clear_update_interrupt_flag", "psc", "arr", "cnt",
                        "micros_since"} => tim'.cen = tim.cen ]_vars

C8_Witness == kind = "TIM" /\ lastOp = "reset" /\ tim.cen /\ tim.uif

\* C9: the peripheral has exactly one live holder (raw handle, Idle Timer or
\* CountDownTimer) in every state.
C9_SingleOwner == kind \in {"TIM", "SYST"} => Cardinality(holders) = 1

C9_Witness == kind = "TIM" /\ lastOp = "stop" /\ holders = {"idle"}

\* C10: stop followed by start_raw(p, r) leaves every register and internal
\* counter exactly as start(freq) would have left them from the state before the
\* stop, for every freq with compute_arr_presc(freq, clk) = (p, r).
C10_StopStartRawEqualsStart ==
    (kind = "TIM" /\ lastOp = "start_raw" /\ pre # NoSnapshot) =>
        \A f \in Freqs :
            LET c == compute_arr_presc(f, clk, overflow_checks)
            IN  (c.st = "ok" /\ c.psc = tim.psc /\ c.arr = tim.arr) =>
                    tim = start(pre, f, clk, overflow_checks).t

C10_Witness ==
    /\ kind = "TIM" /\ lastOp = "start_raw" /\ pre # NoSnapshot
    /\ pre.cen /\ pre.uif /\ pre.cnt > 0
    /\ \E f \in Freqs :
          LET c == compute_arr_presc(f, clk, overflow_checks)
          IN  c.st = "ok" /\ c.psc = tim.psc /\ c.arr = tim.arr

\* C11 (as amended): with input clock 72,000,000 Hz and target frequency 1 Hz the
\* solver computes ticks = 72,000,000 and returns prescaler 1098 and reload 65513.
C11_Solver72MHz1Hz ==
    (sres # NotCalled /\ clk = Clock72MHz /\ sfreq = 1) =>
        /\ ToInt(DivU32(clk, sfreq)) = 72000000
        /\ sres = Solved(1098, 65513)

C11_Witness == clk = Clock72MHz /\ sfreq = 1 /\ sres.st = "ok" /\ sres.psc = 1098

\* C11 (as claimed): ... returns prescaler 1098 and reload 65514.
C11_Solver72MHz1HzReload65514 ==
    (sres # NotCalled /\ clk = Clock72MHz /\ sfreq = 1) =>
        /\ ToInt(DivU32(clk, sfreq)) = 72000000
        /\ sres = Solved(1098, 65514)

\* C12: with input clock 8,000,000 Hz and target frequency 1,000 Hz the solver
\* computes ticks = 8000 and returns prescaler 0 and reload 7999.
C12_Solver8MHz1kHz ==
    (sres # NotCalled /\ clk = Clock8MHz /\ sfreq = 1000) =>
        /\ ToInt(DivU32(clk, sfreq)) = 8000
        /\ sres = Solved(0, 7999)

C12_Witness == clk = Clock8MHz /\ sfreq = 1000 /\ sres.st = "ok" /\ sres.arr = 7999

\* C13: stop on a general-purpose CountDownTimer clears the run-enable bit and
\* nothing else (prescaler, reload, counter, interrupt-enable bit and
\* update-pending flag are as they were), and the peripheral is then held as an
\* Idle Timer with the same input-clock frequency.
C13_StopFrame ==
    [][ Stop => /\ tim' = [tim EXCEPT !.cen = FALSE]
                /\ holders' = {"idle"}
                /\ clk' = clk /\ kind' = kind ]_vars

C13_Witness ==
    /\ kind = "TIM" /\ lastOp = "stop" /\ holders = {"idle"}
    /\ ~tim.cen /\ tim.uif /\ tim.uie /\ tim.cnt = 1 /\ tim.psc = 1

RestartWrites == << "cr1.cen", "psc", "arr", "cr1.urs", "egr.ug", "cr1.urs", "cr1.cen" >>

\* C15: every start / restart of a general-purpose timer that programs the
\* registers ends with exactly these writes in this order: CEN cleared, PSC
\* written, ARR written, the forced update (URS set, UG, URS cleared), CEN set;
\* and no operation writes PSC or ARR while CEN is set.
C15_RestartWriteOrder ==
    kind = "TIM" =>
        /\ (lastOp \in StartOps /\ lastRes = "ok") =>
              LET n == Len(wlog)
                  k == n - Len(RestartWrites)
              IN  /\ k = (IF lastOp = "start_master" THEN 1 ELSE 0)
                  /\ [i \in 1 .. Len(RestartWrites) |-> wlog[k + i].reg] = RestartWrites
                  /\ ~wlog[k + 1].cen
                  /\ wlog[n].cen
        /\ \A i \in 1 .. Len(wlog) : wlog[i].reg \in {"psc", "arr"} => ~wlog[i].cen

C15_Witness ==
    /\ kind = "TIM" /\ lastOp = "restart_raw" /\ lastRes = "ok"
    /\ tim.uif /\ tim.psc = 1 /\ tim.arr = 1 /\ Len(wlog) = Len(RestartWrites)

\* C16: reset on a general-purpose CountDownTimer writes URS set, then UG, then
\* URS cleared; on return URS is clear, the update-pending flag is as it was
\* before the call, the counter and the prescaler counter are rewound and the
\* prescaler is loaded, and CEN, UIE, PSC and ARR are unchanged.
C16_ResetFrame ==
    [][ Reset =>
          /\ [i \in 1 .. Len(wlog') |-> wlog'[i].reg] = << "cr1.urs", "egr.ug", "cr1.urs" >>
          /\ wlog'[1].urs /\ wlog'[2].urs /\ ~wlog'[3].urs
          /\ tim' = [tim EXCEPT !.cnt = 0, !.pscCnt = 0, !.pscShadow = tim.psc]
          /\ ~tim'.urs /\ tim'.uif = tim.uif ]_vars

C16_Witness ==
    /\ kind = "TIM" /\ lastOp = "reset" /\ Len(wlog) = 3
    /\ ~tim.uif /\ tim.cen /\ tim.uie /\ tim.psc = 1 /\ tim.pscShadow = 1

C18_MasterModeBeforeArming ==
    [][ \A f \in Freqs, m \in MasterModes :
          StartMaster(f, m) =>
              LET r == start(tim, f, clk, overflow_checks)
              IN  /\ lastRes' = r.res
                  /\ tim' = [r.t EXCEPT !.mms = m]
                  /\ wlog'[1].reg = "cr2.mms" /\ wlog'[1].mms = m
                  /\ \A i \in 1 .. Len(wlog') :
                        (wlog'[i].reg = "cr1.cen" /\ wlog'[i].cen) => wlog'[i].mms = m ]_vars

C18_Witness ==
    /\ kind = "TIM" /\ lastOp = "start_master" /\ lastRes = "ok"
    /\ tim.mms = "Update" /\ tim.cen /\ wlog[Len(wlog)].mms = "Update"

\* C20: while a general-purpose peripheral is held as an Idle Timer, and when a
\* raw handle has been returned by CountDownTimer::release, CEN is clear: the
\* counter runs only while a CountDownTimer owns the peripheral.
C20_RunsOnlyWhileCountDown ==
    kind = "TIM" =>
        /\ "idle" \in holders => ~tim.cen
        /\ (holders = {"raw"} /\ lastOp = "countdown_release") => ~tim.cen
        /\ tim.cen => holders = {"countdown"}

C20_Witness ==
    /\ kind = "TIM" /\ lastOp = "countdown_release" /\ holders = {"raw"}
    /\ ~tim.cen /\ tim.uif /\ tim.cnt = 1

\* C14: for each remap configuration the build defines and each channel 1-4 the
\* request is accepted for exactly one pin, the pin of the documentation table;
\* every other (pin, channel, configuration) request is rejected; and each
\* configuration is bound to exactly one peripheral, the one of its section of
\* the documentation.
C14_RemapIsTheDocumentedFunction ==
    remap # NoRequest =>
        /\ remap.res # "none" =>
              (remap.res = "accepted" <=> remap.pin = DocTable[remap.name].pins[remap.ch])
        /\ Cardinality({ p \in Pins : Accepts(remap.name, remap.ch, p) }) = 1
        /\ Periph(remap.name) = { DocTable[remap.name].periph }
        /\ { r.name : r \in RemapTable } = DOMAIN DocTable

C14_Witness ==
    /\ remap # NoRequest /\ remap.res = "accepted"
    /\ remap.name = "Tim4Remap" /\ remap.ch = 3 /\ remap.pin = "PD14"

Running == kind = "TIM" /\ "countdown" \in holders /\ tim.cen /\ lastRes # "panic"
Disturbing ==
    StartOps \cup {"cancel", "stop", "countdown_release", "release", "reset",
                   "clocking_reset", "new"}
Elapsed == lastOp = "wait" /\ lastRes = "ok"

\* C19 (as amended): from any point where a general-purpose timer is running, if
\* from then on it is never cancelled, stopped, restarted or reset and the
\* update flag is never cleared by clear_update_interrupt_flag, then (the
\* hardware ticking and the caller polling wait, both fairly) wait returns
\* elapsed infinitely often.
C19_PeriodicLiveness ==
    []( (Running /\ [](lastOp \notin Disturbing \cup {"clear_update_interrupt_flag"}))
            => []<>Elapsed )

C19_Witness ==
    /\ kind = "TIM" /\ lastOp = "wait" /\ lastRes = "ok"
    /\ tim.cen /\ tim.psc = 1 /\ tim.arr = 1 /\ tim.cnt = 1

\* C19 (as claimed): ... if from then on it is never cancelled, stopped or
\* restarted, then wait returns elapsed infinitely often.
C19_PeriodicLivenessUnlessCancelled ==
    []( (Running /\ [](lastOp \notin Disturbing)) => []<>Elapsed )

====
